---- MODULE Spec2Model ----
(***************************************************************************)
(* Model of camaro_to_braille.py: capture a frame (Picamera2, else the     *)
(* rpicam-still command), preprocess, OCR, report, and optionally send the *)
(* text to an ESP32 over a serial device in newline-terminated chunks.     *)
(*                                                                         *)
(* Conventions.                                                            *)
(*  - A Python str is a sequence of one-character strings.                 *)
(*  - An Optional value is None == <<>> or Some(v) == <<v>>.               *)
(*  - pc is the position of the single thread of control.  A raise is a    *)
(*    transfer of control to the innermost handler that catches it, after  *)
(*    the finally/with blocks on the way have run.                         *)
(*  - The calls into libraries that the program guards with try/except     *)
(*    (camera set-up and frame the preview window, rpicam-still,    *)
(*    imread, the OCR engine, opening, writing and flushing the serial     *)
(*    device) either return or raise, chosen by the environment.  The      *)
(*    clean-up calls (picam.stop, destroyAllWindows, Serial.close) and     *)
(*    the image writes of main are taken to return.                        *)
(***************************************************************************)
EXTENDS Integers, Sequences, FiniteSets, TLC

(* ---------------------------- CONFIG (lines 16-22) --------------------- *)
RESOLUTION == <<640, 480>>
MAX_CHARS_PER_CHUNK == 120
CAPTURE_TIMEOUT_SEC == 6

(* ---------------------------- bounds of the model ---------------------- *)
\* a text handed to send_to_esp32 is the concatenation of at most MaxPieces pieces
MaxPieces == 3
\* the wall clock when the process starts is 0..MaxStartTime seconds
MaxStartTime == 1
\* the clock is followed for MaxOverrun seconds beyond the capture deadline
MaxOverrun == 1

MaxTime == MaxStartTime + CAPTURE_TIMEOUT_SEC + MaxOverrun

(* ---------------------------- Optional values -------------------------- *)
None == << >>
Some(v) == <<v>>

(* ---------------------------- Python str operations -------------------- *)
\* the characters str.split() and str.strip() treat as whitespace
Whitespace == {" ", "\n", "\t"}

IsSpace(c) == c \in Whitespace

\* code points of the characters that occur in the model (ord)
Ord(c) ==
    CASE c = "\t" -> 9
      [] c = "\n" -> 10
      [] c = " "  -> 32
      [] c = "/"  -> 47
      [] c = "0"  -> 48
      [] c = "1"  -> 49
      [] c = "A"  -> 65
      [] c = "B"  -> 66
      [] c = "C"  -> 67
      [] c = "M"  -> 77
      [] c = "S"  -> 83
      [] c = "U"  -> 85
      [] c = "a"  -> 97
      [] c = "b"  -> 98
      [] c = "d"  -> 100
      [] c = "e"  -> 101
      [] c = "t"  -> 116
      [] c = "v"  -> 118
      [] c = "y"  -> 121

\* s[:n]
Take(s, n) == SubSeq(s, 1, IF n < Len(s) THEN n ELSE Len(s))

\* s[n:]
Drop(s, n) == SubSeq(s, (IF n < Len(s) THEN n ELSE Len(s)) + 1, Len(s))

RECURSIVE LStrip(_)
LStrip(s) ==
    IF s # << >> /\ IsSpace(Head(s)) THEN LStrip(Tail(s)) ELSE s

RECURSIVE RStrip(_)
RStrip(s) ==
    IF s # << >> /\ IsSpace(s[Len(s)]) THEN RStrip(SubSeq(s, 1, Len(s) - 1)) ELSE s

\* str.strip()
Strip(s) == RStrip(LStrip(s))

\* the least index in lo..hi of a whitespace character of s, else hi + 1
RECURSIVE FirstSpace(_, _, _)
FirstSpace(s, lo, hi) ==
    IF lo > hi THEN hi + 1
    ELSE IF lo = hi THEN (IF IsSpace(s[lo]) THEN lo ELSE hi + 1)
    ELSE LET mid == (lo + hi) \div 2
             l == FirstSpace(s, lo, mid)
         IN  IF l <= mid THEN l ELSE FirstSpace(s, mid + 1, hi)

\* the longest prefix of s without whitespace
WordPrefix(s) == SubSeq(s, 1, FirstSpace(s, 1, Len(s)) - 1)

\* str.split(): the maximal runs of non-whitespace characters, in order
RECURSIVE Split(_)
Split(s) ==
    LET t == LStrip(s)
        w == WordPrefix(t)
    IN  IF t = << >> THEN << >>
        ELSE <<w>> \o Split(Drop(t, Len(w)))

\* sep.join(words)
RECURSIVE Join(_, _)
Join(sep, words) ==
    IF words = << >> THEN << >>
    ELSE IF Len(words) = 1 THEN words[1]
    ELSE words[1] \o sep \o Join(sep, Tail(words))

\* str.encode("utf-8") of the (ASCII) characters of the model
Utf8(s) == [i \in 1..Len(s) |-> Ord(s[i])]

\* b"\n"
NewlineByte == <<Ord("\n")>>

\* s < t for Python strings (code-point order)
RECURSIVE StrLess(_, _)
StrLess(s, t) ==
    IF t = << >> THEN FALSE
    ELSE IF s = << >> THEN TRUE
    ELSE IF Ord(Head(s)) # Ord(Head(t)) THEN Ord(Head(s)) < Ord(Head(t))
    ELSE StrLess(Tail(s), Tail(t))

\* insertion of x into the sorted list l
RECURSIVE Insert(_, _)
Insert(x, l) ==
    IF l = << >> THEN <<x>>
    ELSE IF StrLess(Head(l), x) THEN <<Head(l)>> \o Insert(x, Tail(l))
    ELSE <<x>> \o l

\* sorted(l)
RECURSIVE Sorted(_)
Sorted(l) ==
    IF l = << >> THEN << >> ELSE Insert(Head(l), Sorted(Tail(l)))

(* ---------------------------- the device filesystem -------------------- *)
DevTty == <<"/", "d", "e", "v", "/", "t", "t", "y">>
PatACM == DevTty \o <<"A", "C", "M">>
PatUSB == DevTty \o <<"U", "S", "B">>

\* the device nodes that may exist
DevNames ==
    { PatACM \o <<"0">>, PatACM \o <<"1">>, PatUSB \o <<"0">>, DevTty \o <<"S", "0">> }

\* does path match the glob pattern prefix* ?
Matches(prefix, path) ==
    Len(path) >= Len(prefix) /\ SubSeq(path, 1, Len(prefix)) = prefix

\* the lists glob.glob(prefix*) may return when the nodes in fs exist:
\* every matching node once, in the order of the directory listing
GlobResults(prefix, fs) ==
    LET m == { p \in fs : Matches(prefix, p) }
    IN  { l \in [1..Cardinality(m) -> m] : \A p \in m : \E i \in DOMAIN l : l[i] = p }

(* ---------------------------- inputs ----------------------------------- *)
\* a word of MAX_CHARS_PER_CHUNK - 1 characters
LongWord == [i \in 1..(MAX_CHARS_PER_CHUNK - 1) |-> "b"]

Pieces == { <<"a">>, <<" ">>, <<"\n", "\t">>, LongWord, LongWord \o <<"b">> }

RECURSIVE Concat(_)
Concat(ps) == IF ps = << >> THEN << >> ELSE Head(ps) \o Concat(Tail(ps))

\* the pictures the camera may deliver
Frames == {"page", "blank"}

\* the texts made of at most n pieces
Texts(n) == { Concat(ps) : ps \in UNION { [1..k -> Pieces] : k \in 0..n } }

\* the strings the OCR engine may return in main: empty, whitespace only, short,
\* exactly one chunk, and two chunks with whitespace to strip and to collapse
OcrTexts ==
    Texts(1) \cup { <<"a", "\n", "\t">>,
                    <<" ">> \o LongWord \o <<" ", "\n", "a", "a", "\n">> }

(* ---------------------------- state ------------------------------------ *)
VARIABLES
    pc,             \* position of the thread of control
    exitStatus,     \* "running", "ok" (main returned), "exit0" (sys.exit(0)), "error" (uncaught exception)
    out,            \* the lines printed, in order
    PICAMERA2_OK,   \* line 28-32: the import of picamera2 succeeded
    SHOW_PREVIEW,   \* line 25: preview enabled and DISPLAY set
    sensor,         \* "off", "started", "stopped": the Picamera2 sensor
    stops,          \* number of picam.stop() calls
    now,            \* time.time(), in seconds
    t0,             \* capture_with_picamera2: t0
    iterStart,      \* the clock when the current preview iteration began
    img,            \* capture_with_picamera2: img (Optional frame)
    key,            \* capture_with_picamera2: key
    frame,          \* capture_with_picamera2 / main: frame (Optional frame)
    pending,        \* how the try block of capture_with_picamera2 was left
    loopExit,       \* how the preview loop was left
    primaryRaised,  \* capture_with_picamera2 raised an Exception into capture_frame
    rpicamCalls,    \* the (width, height) of every rpicam-still invocation
    files,          \* the image files written by this run
    text,           \* main: text (Optional: None before ocr_image returned)
    ocrRaised,      \* the OCR engine raised
    choice,         \* main: choice (Optional: None before the prompt)
    arg_text,       \* send_to_esp32: the text argument (Optional str)
    arg_port,       \* send_to_esp32: the port argument (Optional str)
    s_text,         \* send_to_esp32: text after line 46
    s_port,         \* send_to_esp32: port after line 51
    scans,          \* number of find_serial_port() scans of /dev
    globbed,        \* what the last scan's two globs returned, concatenated
    opened,         \* the ports serial.Serial() was called with
    ser,            \* "none", "open", "closed": the serial handle
    closes,         \* number of times the serial handle was closed
    payload,        \* send_to_esp32: payload
    written,        \* the byte strings passed to ser.write that reached the device
    ioError         \* "none", "open", "write", "flush": the device I/O error raised

mainVars == <<exitStatus, text, ocrRaised, choice, files>>
captureVars ==
    <<PICAMERA2_OK, SHOW_PREVIEW, sensor, stops, now, t0, iterStart, img, key, frame, pending, loopExit, primaryRaised, rpicamCalls>>
sendArgs == <<arg_text, arg_port>>
sendVars == <<s_text, s_port, scans, globbed, opened, ser, closes, payload, written, ioError>>
vars == <<pc, out, mainVars, captureVars, sendArgs, sendVars>>

Console(msg) == out' = Append(out, msg)

(* ---------------------------- send_to_esp32 ---------------------------- *)
\* mutant: the candidates are not sorted
find_serial_port_unsorted(acm, usb) ==
    LET cands == acm \o usb
    IN  IF cands # << >> THEN Some(cands[1]) ELSE None

\* line 41-43
find_serial_port(acm, usb) ==
    LET cands == Sorted(acm \o usb)
    IN  IF cands # << >> THEN Some(cands[1]) ELSE None

\* `x or ""` for an Optional str
OrEmpty(x) == IF x = None THEN << >> ELSE x[1]

\* mutant: the text is tested without strip()
SendEntryNoStrip ==
    /\ pc = "send_entry"
    /\ s_text' = OrEmpty(arg_text)
    /\ IF s_text' = << >>
         THEN /\ Console("No text detected to send.")
              /\ pc' = "send_ret"
         ELSE /\ pc' = "send_resolve"
              /\ UNCHANGED out
    /\ UNCHANGED <<mainVars, captureVars, sendArgs, s_port, scans, globbed, opened, ser,
                   closes, payload, written, ioError>>

\* line 46-49
SendEntry ==
    /\ pc = "send_entry"
    /\ s_text' = Strip(OrEmpty(arg_text))
    /\ IF s_text' = << >>
         THEN /\ Console("No text detected to send.")
              /\ pc' = "send_ret"
         ELSE /\ pc' = "send_resolve"
              /\ UNCHANGED out
    /\ UNCHANGED <<mainVars, captureVars, sendArgs, s_port, scans, globbed, opened, ser,
                   closes, payload, written, ioError>>

\* line 52-55, once port is resolved
AfterResolve(p) ==
    /\ s_port' = p
    /\ IF p = None \/ p = Some(<< >>)
         THEN /\ Console("No ESP32 serial port found. Skipping send.")
              /\ pc' = "send_ret"
         ELSE /\ Console("Connecting to ESP32")
              /\ pc' = "send_open"

\* line 50-55 with an explicit port
SendResolveGiven ==
    /\ pc = "send_resolve"
    /\ arg_port # None
    /\ AfterResolve(arg_port)
    /\ UNCHANGED <<mainVars, captureVars, sendArgs, s_text, scans, globbed, opened, ser,
                   closes, payload, written, ioError>>

\* line 50-55 with port None: the two globs list the nodes present in /dev
SendResolveScan ==
    /\ pc = "send_resolve"
    /\ arg_port = None
    /\ \E fs \in SUBSET DevNames :
         \E acm \in GlobResults(PatACM, fs), usb \in GlobResults(PatUSB, fs) :
            /\ globbed' = acm \o usb
            /\ AfterResolve(find_serial_port(acm, usb))
    /\ scans' = scans + 1
    /\ UNCHANGED <<mainVars, captureVars, sendArgs, s_text, opened, ser,
                   closes, payload, written, ioError>>

\* line 57: serial.Serial(port, SERIAL_BAUD, timeout=2) returns
SendOpen ==
    /\ pc = "send_open"
    /\ opened' = Append(opened, s_port[1])
    /\ ser' = "open"
    /\ pc' = "send_settle"
    /\ UNCHANGED <<out, mainVars, captureVars, sendArgs, s_text, s_port, scans, globbed,
                   closes, payload, written, ioError>>

\* mutant: the error of serial.Serial() is not caught and leaves main
SendOpenErrorPropagates ==
    /\ pc = "send_open"
    /\ opened' = Append(opened, s_port[1])
    /\ ioError' = "open"
    /\ Console("Serial error")
    /\ exitStatus' = "error"
    /\ pc' = "exited"
    /\ UNCHANGED <<text, ocrRaised, choice, files, captureVars, sendArgs, s_text, s_port,
                   scans, globbed, ser, closes, payload, written>>

\* line 57 raises; line 67-68
SendOpenError ==
    /\ pc = "send_open"
    /\ opened' = Append(opened, s_port[1])
    /\ ioError' = "open"
    /\ Console("Serial error")
    /\ pc' = "send_ret"
    /\ UNCHANGED <<mainVars, captureVars, sendArgs, s_text, s_port, scans, globbed,
                   ser, closes, payload, written>>

\* mutant: the payload is the text as it is, whitespace runs kept
SendSettleNoCollapse ==
    /\ pc = "send_settle"
    /\ payload' = s_text
    /\ pc' = "send_loop"
    /\ UNCHANGED <<out, mainVars, captureVars, sendArgs, s_text, s_port, scans, globbed,
                   opened, ser, closes, written, ioError>>

\* line 58-59
SendSettle ==
    /\ pc = "send_settle"
    /\ payload' = Join(<<" ">>, Split(s_text))
    /\ pc' = "send_loop"
    /\ UNCHANGED <<out, mainVars, captureVars, sendArgs, s_text, s_port, scans, globbed,
                   opened, ser, closes, written, ioError>>

\* leaving the with block of line 57: Serial.__exit__ closes the handle
CloseSerial ==
    /\ ser' = "closed"
    /\ closes' = closes + 1

\* line 60-65: one iteration, write and flush return
SendChunk ==
    /\ pc = "send_loop"
    /\ payload # << >>
    /\ LET chunk == Take(payload, MAX_CHARS_PER_CHUNK)
       IN  written' = Append(written, Utf8(chunk) \o NewlineByte)
    /\ payload' = Drop(payload, MAX_CHARS_PER_CHUNK)
    /\ UNCHANGED <<pc, out, mainVars, captureVars, sendArgs, s_text, s_port, scans, globbed,
                   opened, ser, closes, ioError>>

\* mutant: the handle is closed on the normal path only
SendWriteErrorLeavesOpen ==
    /\ pc = "send_loop"
    /\ payload # << >>
    /\ payload' = Drop(payload, MAX_CHARS_PER_CHUNK)
    /\ ioError' = "write"
    /\ Console("Serial error")
    /\ pc' = "send_ret"
    /\ UNCHANGED <<mainVars, captureVars, sendArgs, s_text, s_port, scans, globbed,
                   opened, ser, closes, written>>

\* line 63 raises: nothing of the chunk is written; with-exit; line 67-68
SendWriteError ==
    /\ pc = "send_loop"
    /\ payload # << >>
    /\ payload' = Drop(payload, MAX_CHARS_PER_CHUNK)
    /\ ioError' = "write"
    /\ CloseSerial
    /\ Console("Serial error")
    /\ pc' = "send_ret"
    /\ UNCHANGED <<mainVars, captureVars, sendArgs, s_text, s_port, scans, globbed,
                   opened, written>>

\* line 64 raises after the write of line 63 returned; with-exit; line 67-68
SendFlushError ==
    /\ pc = "send_loop"
    /\ payload # << >>
    /\ LET chunk == Take(payload, MAX_CHARS_PER_CHUNK)
       IN  written' = Append(written, Utf8(chunk) \o NewlineByte)
    /\ payload' = Drop(payload, MAX_CHARS_PER_CHUNK)
    /\ ioError' = "flush"
    /\ CloseSerial
    /\ Console("Serial error")
    /\ pc' = "send_ret"
    /\ UNCHANGED <<mainVars, captureVars, sendArgs, s_text, s_port, scans, globbed, opened>>

\* line 60 with payload empty; with-exit; line 66
SendFinish ==
    /\ pc = "send_loop"
    /\ payload = << >>
    /\ CloseSerial
    /\ Console("Sent to ESP32.")
    /\ pc' = "send_ret"
    /\ UNCHANGED <<mainVars, captureVars, sendArgs, s_text, s_port, scans, globbed,
                   opened, payload, written, ioError>>

\* send_to_esp32 returns to a caller other than main
SendReturn ==
    /\ pc = "send_ret"
    /\ pc' = "returned"
    /\ UNCHANGED <<out, mainVars, captureVars, sendArgs, sendVars>>

SendStep ==
    \/ SendEntry
    \/ SendResolveScan
    \/ SendOpen
    \/ SendOpenError
    \/ SendSettle
    \/ SendChunk
    \/ SendWriteError
    \/ SendFlushError
    \/ SendFinish

(* ---------------------------- initial states --------------------------- *)
InitCapture ==
    /\ sensor = "off"
    /\ stops = 0
    /\ t0 = 0
    /\ iterStart = 0
    /\ img = None
    /\ key = "none"
    /\ frame = None
    /\ pending = "none"
    /\ loopExit = "none"
    /\ primaryRaised = FALSE
    /\ rpicamCalls = << >>

InitSend ==
    /\ s_text = << >>
    /\ s_port = None
    /\ scans = 0
    /\ globbed = << >>
    /\ opened = << >>
    /\ ser = "none"
    /\ closes = 0
    /\ payload = << >>
    /\ written = << >>
    /\ ioError = "none"

InitMain ==
    /\ exitStatus = "running"
    /\ out = << >>
    /\ files = {}
    /\ text = None
    /\ ocrRaised = FALSE
    /\ choice = None

\* send_to_esp32(text, port) called on its own
SendInit ==
    /\ pc = "send_entry"
    /\ InitMain /\ InitCapture /\ InitSend
    /\ PICAMERA2_OK = FALSE
    /\ SHOW_PREVIEW = FALSE
    /\ now = 0
    /\ arg_text \in {None} \cup { Some(t) : t \in Texts(MaxPieces) }
    /\ arg_port \in {None} \cup { Some(p) : p \in DevNames }


(* ---------------------------- capture_frame ---------------------------- *)
\* mutant: the handler reports the failure and does not fall back
CaptureFrameExceptNoFallback ==
    /\ primaryRaised' = TRUE
    /\ Console("Picamera2 capture failed; falling back to rpicam-still")
    /\ pc' = "exited"

\* line 134-137: capture_frame catches the Exception and falls back to rpicam-still
CaptureFrameExcept ==
    /\ primaryRaised' = TRUE
    /\ Console("Picamera2 capture failed; falling back to rpicam-still")
    /\ pc' = "rpicam_run"

\* an exception nothing catches leaves main: traceback, exit status 1
Uncaught(msg) ==
    /\ Console(msg)
    /\ exitStatus' = "error"
    /\ pc' = "exited"

\* line 157-158, 131
MainStart ==
    /\ pc = "start"
    /\ Console("Starting capture")
    /\ pc' = IF PICAMERA2_OK THEN "picam_init" ELSE "rpicam_run"
    /\ UNCHANGED <<mainVars, captureVars, sendArgs, sendVars>>

(* ---------------------------- capture_with_picamera2 ------------------- *)
\* line 72-79: the camera is configured and the sensor started
PicamInit ==
    /\ pc = "picam_init"
    /\ sensor' = "started"
    /\ pc' = "picam_t0"
    /\ UNCHANGED <<out, mainVars, PICAMERA2_OK, SHOW_PREVIEW, stops, now, t0, iterStart,
                   img, key, frame, pending, loopExit, primaryRaised,
                   rpicamCalls, sendArgs, sendVars>>

\* line 75-78 raise (no camera, camera busy): the sensor was not started
PicamInitError ==
    /\ pc = "picam_init"
    /\ CaptureFrameExcept
    /\ UNCHANGED <<mainVars, PICAMERA2_OK, SHOW_PREVIEW, sensor, stops, now, t0, iterStart,
                   img, key, frame, pending, loopExit,
                   rpicamCalls, sendArgs, sendVars>>

\* line 81-87 (and 102): t0 is read and the try block entered
PicamT0 ==
    /\ pc = "picam_t0"
    /\ t0' = now
    /\ iterStart' = now
    /\ Console("Press 'c' to capture, 'q' to quit.")
    /\ pc' = IF SHOW_PREVIEW THEN "grab" ELSE "single"
    /\ UNCHANGED <<mainVars, PICAMERA2_OK, SHOW_PREVIEW, sensor, stops, now,
                   img, key, frame, pending, loopExit, primaryRaised,
                   rpicamCalls, sendArgs, sendVars>>

\* the clock advances while the preview loop runs
Tick ==
    /\ pc \in {"grab", "show", "keys"}
    /\ now < MaxTime
    /\ now' = now + 1
    /\ UNCHANGED <<pc, out, mainVars, PICAMERA2_OK, SHOW_PREVIEW, sensor, stops, t0,
                   iterStart, img, key, frame, pending, loopExit, primaryRaised,
                   rpicamCalls, sendArgs, sendVars>>

\* line 88: picam.capture_array() returns a new frame
Grab ==
    /\ pc = "grab"
    /\ \E f \in Frames : img' = Some(f)
    /\ pc' = "show"
    /\ UNCHANGED <<out, mainVars, PICAMERA2_OK, SHOW_PREVIEW, sensor, stops, now, t0,
                   iterStart, key, frame, pending, loopExit, primaryRaised,
                   rpicamCalls, sendArgs, sendVars>>

\* the try block is left by an exception
RaiseInTry ==
    /\ pending' = "exception"
    /\ pc' = "finally"

\* line 88 raises
GrabError ==
    /\ pc = "grab"
    /\ RaiseInTry
    /\ loopExit' = "exception"
    /\ UNCHANGED <<out, mainVars, PICAMERA2_OK, SHOW_PREVIEW, sensor, stops, now, t0,
                   iterStart, img, key, frame, primaryRaised,
                   rpicamCalls, sendArgs, sendVars>>

\* line 89-90: the frame is shown and the keyboard polled
Show ==
    /\ pc = "show"
    /\ key' \in {"c", "q", "other"}
    /\ pc' = "keys"
    /\ UNCHANGED <<out, mainVars, PICAMERA2_OK, SHOW_PREVIEW, sensor, stops, now, t0,
                   iterStart, img, frame, pending, loopExit,
                   primaryRaised, rpicamCalls, sendArgs, sendVars>>

\* line 89-90 raise (the preview window cannot be shown)
ShowError ==
    /\ pc = "show"
    /\ RaiseInTry
    /\ loopExit' = "exception"
    /\ UNCHANGED <<out, mainVars, PICAMERA2_OK, SHOW_PREVIEW, sensor, stops, now, t0,
                   iterStart, img, key, frame, primaryRaised,
                   rpicamCalls, sendArgs, sendVars>>

\* line 91-93, 101
KeyCapture ==
    /\ pc = "keys"
    /\ key = "c"
    /\ frame' = img
    /\ loopExit' = "capture"
    /\ pending' = "return"
    /\ pc' = "finally"
    /\ UNCHANGED <<out, mainVars, PICAMERA2_OK, SHOW_PREVIEW, sensor, stops, now, t0,
                   iterStart, img, key, primaryRaised,
                   rpicamCalls, sendArgs, sendVars>>

\* line 94-96: sys.exit(0) raises SystemExit
KeyQuit ==
    /\ pc = "keys"
    /\ key = "q"
    /\ loopExit' = "quit"
    /\ pending' = "exit"
    /\ pc' = "finally"
    /\ UNCHANGED <<out, mainVars, PICAMERA2_OK, SHOW_PREVIEW, sensor, stops, now, t0,
                   iterStart, img, key, frame, primaryRaised,
                   rpicamCalls, sendArgs, sendVars>>

\* mutant: > for >=
TimedOutStrict == now - t0 > CAPTURE_TIMEOUT_SEC

\* line 97: time.time() - t0 >= CAPTURE_TIMEOUT_SEC
TimedOut == now - t0 >= CAPTURE_TIMEOUT_SEC

\* line 97-101
KeyTimeout ==
    /\ pc = "keys"
    /\ key \notin {"c", "q"}
    /\ TimedOut
    /\ frame' = img
    /\ Console("(Auto-captured due to timeout)")
    /\ loopExit' = "timeout"
    /\ pending' = "return"
    /\ pc' = "finally"
    /\ UNCHANGED <<mainVars, PICAMERA2_OK, SHOW_PREVIEW, sensor, stops, now, t0,
                   iterStart, img, key, primaryRaised,
                   rpicamCalls, sendArgs, sendVars>>

\* line 97 false, back to line 87: the next iteration begins
KeyNone ==
    /\ pc = "keys"
    /\ key \notin {"c", "q"}
    /\ ~TimedOut
    /\ iterStart' = now
    /\ pc' = "grab"
    /\ UNCHANGED <<out, mainVars, PICAMERA2_OK, SHOW_PREVIEW, sensor, stops, now, t0,
                   img, key, frame, pending, loopExit, primaryRaised,
                   rpicamCalls, sendArgs, sendVars>>

\* line 103: the single capture without preview
Single ==
    /\ pc = "single"
    /\ \E f \in Frames : frame' = Some(f)
    /\ pending' = "return"
    /\ pc' = "finally"
    /\ UNCHANGED <<out, mainVars, PICAMERA2_OK, SHOW_PREVIEW, sensor, stops, now, t0,
                   iterStart, img, key, loopExit, primaryRaised,
                   rpicamCalls, sendArgs, sendVars>>

\* line 103 raises
SingleError ==
    /\ pc = "single"
    /\ RaiseInTry
    /\ UNCHANGED <<out, mainVars, PICAMERA2_OK, SHOW_PREVIEW, sensor, stops, now, t0,
                   iterStart, img, key, frame, loopExit, primaryRaised,
                   rpicamCalls, sendArgs, sendVars>>

\* line 104-105: finally: picam.stop()
StopSensor ==
    /\ sensor' = "stopped"
    /\ stops' = stops + 1

\* capture_with_picamera2 is left: its locals t0, img, key are gone
DropLocals ==
    /\ t0' = 0
    /\ iterStart' = 0
    /\ img' = None
    /\ key' = "none"
    /\ pending' = "none"

\* line 105, 107-109: the frame is returned to capture_frame and on to main
PicamReturn ==
    /\ pc = "finally"
    /\ pending = "return"
    /\ StopSensor
    /\ DropLocals
    /\ pc' = "write_raw"
    /\ UNCHANGED <<out, mainVars, PICAMERA2_OK, SHOW_PREVIEW, now, frame, loopExit, primaryRaised,
                   rpicamCalls, sendArgs, sendVars>>

\* mutant: capture_frame catches SystemExit as a capture failure
PicamExitCaught ==
    /\ pc = "finally"
    /\ pending = "exit"
    /\ StopSensor
    /\ DropLocals
    /\ CaptureFrameExcept
    /\ UNCHANGED <<mainVars, PICAMERA2_OK, SHOW_PREVIEW, now, frame, loopExit,
                   rpicamCalls, sendArgs, sendVars>>

\* line 105, then SystemExit leaves capture_frame (line 134 catches Exception only) and main
PicamExit ==
    /\ pc = "finally"
    /\ pending = "exit"
    /\ StopSensor
    /\ DropLocals
    /\ exitStatus' = "exit0"
    /\ pc' = "exited"
    /\ UNCHANGED <<out, text, ocrRaised, choice, files, PICAMERA2_OK, SHOW_PREVIEW, now, frame, loopExit,
                   primaryRaised, rpicamCalls, sendArgs, sendVars>>

\* mutant: the sensor is stopped on the normal path only
PicamRaiseNoStop ==
    /\ pc = "finally"
    /\ pending = "exception"
    /\ DropLocals
    /\ CaptureFrameExcept
    /\ UNCHANGED <<mainVars, PICAMERA2_OK, SHOW_PREVIEW, sensor, stops, now, frame, loopExit,
                   rpicamCalls, sendArgs, sendVars>>

\* line 105, then the exception reaches line 134
PicamRaise ==
    /\ pc = "finally"
    /\ pending = "exception"
    /\ StopSensor
    /\ DropLocals
    /\ CaptureFrameExcept
    /\ UNCHANGED <<mainVars, PICAMERA2_OK, SHOW_PREVIEW, now, frame, loopExit,
                   rpicamCalls, sendArgs, sendVars>>

(* ---------------------------- capture_with_rpicam ---------------------- *)
\* line 116: --width and --height of the command
RpicamArgs == <<RESOLUTION[1], RESOLUTION[2]>>

\* line 114-118: rpicam-still runs and exits with status 0
RpicamRun ==
    /\ pc = "rpicam_run"
    /\ rpicamCalls' = Append(rpicamCalls, RpicamArgs)
    /\ files' = files \cup {"capture_rpicam.jpg"}
    /\ pc' = "rpicam_read"
    /\ UNCHANGED <<out, exitStatus, text, ocrRaised, choice, PICAMERA2_OK, SHOW_PREVIEW,
                   sensor, stops, now, t0, iterStart, img, key, frame,
                   pending, loopExit, primaryRaised, sendArgs, sendVars>>

\* line 119-122: the tool is missing or exits with a non-zero status
RpicamError ==
    /\ pc = "rpicam_run"
    /\ rpicamCalls' = Append(rpicamCalls, RpicamArgs)
    /\ \E msg \in {"RuntimeError: rpicam-still not found", "RuntimeError: rpicam-still failed"} :
          Uncaught(msg)
    /\ UNCHANGED <<text, ocrRaised, choice, files, PICAMERA2_OK, SHOW_PREVIEW,
                   sensor, stops, now, t0, iterStart, img, key, frame,
                   pending, loopExit, primaryRaised, sendArgs, sendVars>>

\* line 124-127: the file is read back
RpicamRead ==
    /\ pc = "rpicam_read"
    /\ \E f \in Frames : frame' = Some(f)
    /\ pc' = "write_raw"
    /\ UNCHANGED <<out, mainVars, PICAMERA2_OK, SHOW_PREVIEW, sensor, stops, now, t0,
                   iterStart, img, key, pending, loopExit,
                   primaryRaised, rpicamCalls, sendArgs, sendVars>>

\* line 124-126: cv2.imread returns None
RpicamUnreadable ==
    /\ pc = "rpicam_read"
    /\ Uncaught("RuntimeError: Failed to load image captured by rpicam-still.")
    /\ UNCHANGED <<text, ocrRaised, choice, files, captureVars, sendArgs, sendVars>>

(* ---------------------------- main ------------------------------------- *)
\* line 159-160
WriteRaw ==
    /\ pc = "write_raw"
    /\ files' = files \cup {"capture_raw.jpg"}
    /\ Console("Saved capture_raw.jpg")
    /\ pc' = "preprocess"
    /\ UNCHANGED <<exitStatus, text, ocrRaised, choice, captureVars, sendArgs, sendVars>>

\* line 162-164
Preprocess ==
    /\ pc = "preprocess"
    /\ files' = files \cup {"capture_proc.jpg"}
    /\ Console("Saved capture_proc.jpg")
    /\ pc' = "ocr"
    /\ UNCHANGED <<exitStatus, text, ocrRaised, choice, captureVars, sendArgs, sendVars>>

\* line 148-150, 154: the engine returns a string
OcrImage ==
    /\ pc = "ocr"
    /\ \E t \in OcrTexts : text' = Some(t)
    /\ pc' = "report"
    /\ UNCHANGED <<out, exitStatus, ocrRaised, choice, files, captureVars, sendArgs, sendVars>>

\* mutant: the engine's error is not caught and leaves main
OcrImageErrorPropagates ==
    /\ pc = "ocr"
    /\ ocrRaised' = TRUE
    /\ Console("OCR error")
    /\ exitStatus' = "error"
    /\ pc' = "exited"
    /\ UNCHANGED <<text, choice, files, captureVars, sendArgs, sendVars>>

\* line 150-154: the engine raises
OcrImageError ==
    /\ pc = "ocr"
    /\ ocrRaised' = TRUE
    /\ Console("OCR error")
    /\ text' = Some(<< >>)
    /\ pc' = "report"
    /\ UNCHANGED <<exitStatus, choice, files, captureVars, sendArgs, sendVars>>

\* line 167-170
Report ==
    /\ pc = "report"
    /\ out' = out \o <<"OCR complete", "===== OCR RESULT =====",
                       IF Strip(text[1]) # << >> THEN "<text>" ELSE "(no text detected)">>
    /\ pc' = "prompt"
    /\ UNCHANGED <<mainVars, captureVars, sendArgs, sendVars>>

\* line 172-175: the operator answers y
PromptYes ==
    /\ pc = "prompt"
    /\ choice' = Some("y")
    /\ Console("Send to ESP32? [y/N]: y")
    /\ arg_text' = text
    /\ arg_port' = None
    /\ pc' = "send_entry"
    /\ UNCHANGED <<exitStatus, text, ocrRaised, files, captureVars, sendVars>>

\* line 172-173, 177-178: any other answer; main returns
PromptNo ==
    /\ pc = "prompt"
    /\ choice' = Some("n")
    /\ out' = out \o <<"Send to ESP32? [y/N]: n", "Skipped sending.">>
    /\ exitStatus' = "ok"
    /\ pc' = "done"
    /\ UNCHANGED <<text, ocrRaised, files, captureVars, sendArgs, sendVars>>

\* line 176: send_to_esp32 returned to main; main returns
SendReturnToMain ==
    /\ pc = "send_ret"
    /\ Console("Send complete")
    /\ exitStatus' = "ok"
    /\ pc' = "done"
    /\ UNCHANGED <<text, ocrRaised, choice, files, captureVars, sendArgs, sendVars>>

\* the process started from the command line (line 180-181)
Init ==
    /\ pc = "start"
    /\ InitMain /\ InitCapture /\ InitSend
    /\ PICAMERA2_OK \in BOOLEAN
    /\ SHOW_PREVIEW \in BOOLEAN
    /\ now \in 0..MaxStartTime
    /\ arg_text = None
    /\ arg_port = None

CaptureStep ==
    \/ MainStart
    \/ PicamInit
    \/ PicamInitError
    \/ PicamT0
    \/ Grab
    \/ GrabError
    \/ Show
    \/ ShowError
    \/ KeyCapture
    \/ KeyQuit
    \/ KeyTimeout
    \/ KeyNone
    \/ Single
    \/ SingleError
    \/ PicamReturn
    \/ PicamExit
    \/ PicamRaise
    \/ RpicamRun
    \/ RpicamError
    \/ RpicamRead
    \/ RpicamUnreadable

MainStep ==
    \/ WriteRaw
    \/ Preprocess
    \/ OcrImage
    \/ OcrImageError
    \/ Report
    \/ PromptYes
    \/ PromptNo
    \/ SendReturnToMain

Step == CaptureStep \/ MainStep \/ SendStep

Next == Step \/ Tick

Spec == Init /\ [][Next]_vars

\* capture_frame alone, from the start of main until it returns or the process ends
CaptureNext == CaptureStep \/ Tick

\* every call of the capture returns or raises, and the clock advances
LiveSpec == Init /\ [][CaptureNext]_vars /\ WF_vars(CaptureStep) /\ WF_vars(Tick)

SendNext == SendStep \/ SendResolveGiven \/ SendReturn

SendSpec == SendInit /\ [][SendNext]_vars

(* ======================= properties of send_to_esp32 =================== *)
\* the argument text is empty, None or made of whitespace only
IsBlank(t) == t = None \/ \A i \in DOMAIN t[1] : IsSpace(t[1][i])

SendLeft == pc \in {"send_ret", "returned", "done"}

\* C3: called with text that is empty, None or whitespace-only, send_to_esp32
\* reports that there is nothing to send and returns without scanning /dev and
\* without opening or writing to a serial device, with or without an explicit port.
C3_BlankTextNothingSent ==
    (IsBlank(arg_text) /\ pc # "send_entry") =>
        /\ SendLeft
        /\ out = <<"No text detected to send.">>
        /\ scans = 0
        /\ opened = << >>
        /\ ser = "none"
        /\ written = << >>

C3_Witness ==
    /\ pc = "returned"
    /\ arg_text # None /\ arg_text[1] # << >> /\ IsBlank(arg_text)
    /\ arg_port # None

\* the set of the elements of a list
Range(l) == { l[i] : i \in DOMAIN l }

\* C4: with non-empty text and no explicit port, when the scan of the two glob
\* patterns returns no match send_to_esp32 reports that no port was found and
\* returns without attempting to open a device; when it returns matches, the
\* device opened is the lexically smallest of all matches.
C4_PortResolution ==
    (~IsBlank(arg_text) /\ arg_port = None /\ scans > 0) =>
        /\ scans = 1
        /\ globbed = << >> =>
              /\ SendLeft
              /\ out = <<"No ESP32 serial port found. Skipping send.">>
              /\ opened = << >>
              /\ ser = "none"
        /\ globbed # << >> =>
              /\ s_port # None
              /\ s_port[1] \in Range(globbed)
              /\ \A m \in Range(globbed) : ~StrLess(m, s_port[1])
              /\ \A i \in DOMAIN opened : opened[i] = s_port[1]
              /\ SendLeft => opened # << >>

C4_Witness ==
    /\ arg_port = None
    /\ Len(globbed) >= 2
    /\ opened # << >>
    /\ opened[1] # globbed[1]
    /\ ser = "open"

\* C5: once the serial device has been opened it is closed on every exit path
\* of the transmission step, after all chunks were written and also when a
\* write or flush raises; after send_to_esp32 returns the handle is never open.
C5_SerialClosedOnExit ==
    /\ closes <= 1
    /\ SendLeft => ser # "open"
    /\ (SendLeft /\ ser # "none") => (ser = "closed" /\ closes = 1)
    /\ ser = "open" => (pc \in {"send_settle", "send_loop"} /\ closes = 0)

C5_Witness ==
    /\ pc = "returned"
    /\ ioError = "write"
    /\ written # << >>
    /\ ser = "closed"

\* the bytes that str.split() treats as whitespace
IsSpaceByte(b) == b \in { Ord(c) : c \in Whitespace }

\* the non-whitespace bytes of b with their positions in b, in order
NonSpaceAt(b) ==
    SelectSeq([i \in DOMAIN b |-> <<b[i], i>>], LAMBDA e : ~IsSpaceByte(e[1]))

\* n is b whitespace-normalized: the same non-whitespace bytes in the same order,
\* one space (and nothing else) exactly where b has a whitespace run between two
\* of them, and no whitespace at either end
IsNormalizationOf(n, b) ==
    LET qn == NonSpaceAt(n)
        qb == NonSpaceAt(b)
    IN  /\ Len(qn) = Len(qb)
        /\ \A k \in DOMAIN qn : qn[k][1] = qb[k][1]
        /\ \A i \in DOMAIN n :
              IsSpaceByte(n[i]) =>
                 /\ n[i] = Ord(" ")
                 /\ 1 < i /\ i < Len(n)
                 /\ ~IsSpaceByte(n[i + 1])
        /\ \A k \in 1..(Len(qn) - 1) :
              (qn[k + 1][2] > qn[k][2] + 1) <=> (qb[k + 1][2] > qb[k][2] + 1)

\* a written frame without its last byte
Body(w) == SubSeq(w, 1, Len(w) - 1)

RECURSIVE Bodies(_)
Bodies(ws) == IF ws = << >> THEN << >> ELSE Body(Head(ws)) \o Bodies(Tail(ws))

\* C7: for a non-empty text sent without I/O error the frames written are, in
\* order, the chunks of the whitespace-normalized text: each chunk is non-empty
\* and at most MAX_CHARS_PER_CHUNK long, each but the last exactly that long,
\* each followed by exactly one newline, and their concatenation is the
\* normalized text.
C7_ChunkFraming ==
    /\ \A i \in DOMAIN written :
          /\ Len(written[i]) >= 2
          /\ Len(Body(written[i])) <= MAX_CHARS_PER_CHUNK
          /\ written[i][Len(written[i])] = Ord("\n")
          /\ \A j \in DOMAIN Body(written[i]) : written[i][j] # Ord("\n")
          /\ (i < Len(written) \/ (pc = "send_loop" /\ payload # << >>)) =>
                Len(Body(written[i])) = MAX_CHARS_PER_CHUNK
    /\ (SendLeft /\ ser = "closed" /\ ioError = "none") =>
          /\ written # << >>
          /\ IsNormalizationOf(Bodies(written), Utf8(arg_text[1]))

C7_Witness ==
    /\ pc = "returned"
    /\ ioError = "none"
    /\ Len(written) = 2
    /\ written[1][MAX_CHARS_PER_CHUNK] = Ord(" ")
    /\ Len(Bodies(written)) < Len(arg_text[1])

(* ======================= properties of the whole run =================== *)
AfterCapture ==
    pc \in {"write_raw", "preprocess", "ocr", "report", "prompt", "send_entry",
            "send_resolve", "send_open", "send_settle", "send_loop", "send_ret", "done"}

RpicamErrors ==
    {"RuntimeError: rpicam-still not found", "RuntimeError: rpicam-still failed",
     "RuntimeError: Failed to load image captured by rpicam-still."}

\* C1: when Picamera2 is unavailable or raises during capture, rpicam-still is
\* invoked with the configured resolution; a frame reaches main if either
\* backend succeeds; if the fallback fails too the error leaves main and the
\* process ends without capture_raw.jpg, OCR or the send prompt.
C1_CaptureFallback ==
    /\ ((~PICAMERA2_OK /\ pc # "start") \/ primaryRaised) =>
          (pc = "rpicam_run" \/ Len(rpicamCalls) = 1)
    /\ \A i \in DOMAIN rpicamCalls : rpicamCalls[i] = RESOLUTION
    /\ AfterCapture => (frame # None /\ exitStatus \in {"running", "ok"})
    /\ exitStatus = "error" <=> (out # << >> /\ out[Len(out)] \in RpicamErrors)
    /\ exitStatus = "error" =>
          /\ pc = "exited"
          /\ Len(rpicamCalls) = 1
          /\ frame = None
          /\ "capture_raw.jpg" \notin files
          /\ text = None
          /\ choice = None
          /\ scans = 0 /\ opened = << >>

C1_Witness ==
    /\ PICAMERA2_OK
    /\ primaryRaised
    /\ exitStatus = "error"
    /\ "capture_rpicam.jpg" \in files

\* C2: when the OCR engine raises, ocr_image returns the empty string and main
\* goes on to the result report and the send prompt; the run never aborts
\* because of the OCR failure.
C2_OcrErrorIsEmptyText ==
    ocrRaised =>
        /\ text = Some(<< >>)
        /\ exitStatus \in {"running", "ok"}
        /\ AfterCapture /\ pc \notin {"write_raw", "preprocess", "ocr"}
        /\ pc # "report" => \E i \in DOMAIN out : out[i] = "(no text detected)"
        /\ pc \notin {"report", "prompt"} => choice # None
        /\ exitStatus = "ok" <=> pc = "done"

C2_Witness ==
    /\ ocrRaised
    /\ choice = Some("y")
    /\ pc = "done"

\* C6: a device I/O error while opening the device or writing a chunk is
\* caught inside send_to_esp32 and reported; send_to_esp32 never raises to
\* main, and main ends normally whether the transmission succeeded, failed
\* part-way or was skipped.
C6_SerialErrorNotFatal ==
    /\ ioError # "none" =>
          /\ pc \in {"send_ret", "done"}
          /\ \E i \in DOMAIN out : out[i] = "Serial error"
    /\ choice # None =>
          /\ exitStatus \in {"running", "ok"}
          /\ pc # "exited"
          /\ exitStatus = "ok" <=> pc = "done"
    /\ (choice = Some("y") /\ pc = "done") => out[Len(out)] = "Send complete"

C6_Witness ==
    /\ ioError = "flush"
    /\ Len(written) = 2
    /\ pc = "done"
    /\ exitStatus = "ok"

InLoop == pc \in {"grab", "show", "keys"}

\* C8: the preview loop is bounded by the auto-capture timeout: it always
\* eventually exits, it exits only by the capture key (with the frame of that
\* iteration), by the quit key, or by the elapsed time having reached
\* CAPTURE_TIMEOUT_SEC (with the frame of that iteration), unless a call raises,
\* and no iteration begins once the timeout has elapsed.
C8_PreviewLoopBounded ==
    /\ [](InLoop => iterStart - t0 < CAPTURE_TIMEOUT_SEC)
    /\ []((pc = "finally" /\ SHOW_PREVIEW) =>
            /\ loopExit \in {"capture", "quit", "timeout", "exception"}
            /\ loopExit = "capture" => (key = "c" /\ frame = img /\ img # None /\ pending = "return")
            /\ loopExit = "quit" => (key = "q" /\ frame = None /\ pending = "exit")
            /\ loopExit = "timeout" =>
                  /\ key = "other"
                  /\ now - t0 >= CAPTURE_TIMEOUT_SEC
                  /\ frame = img /\ img # None /\ pending = "return"
            /\ loopExit = "exception" => (frame = None /\ pending = "exception"))
    /\ [](InLoop => loopExit = "none")
    /\ (InLoop ~> ~InLoop)

C8_Witness ==
    /\ pc = "finally"
    /\ loopExit = "timeout"
    /\ iterStart - t0 = CAPTURE_TIMEOUT_SEC - 1
    /\ now - t0 > CAPTURE_TIMEOUT_SEC

\* C9: when the operator presses the quit key the process exits: the exit is
\* not a capture failure, rpicam-still is not invoked, no image file is
\* written, OCR is not run, the send prompt is not shown and no serial device
\* is scanned for or opened.
C9_QuitExitsAtOnce ==
    loopExit = "quit" =>
        /\ pc \in {"finally", "exited"}
        /\ pc = "exited" => exitStatus = "exit0"
        /\ pc = "finally" => (pending = "exit" /\ exitStatus = "running")
        /\ ~primaryRaised
        /\ rpicamCalls = << >>
        /\ files = {}
        /\ text = None
        /\ choice = None
        /\ scans = 0 /\ opened = << >> /\ ser = "none"
        /\ \A i \in DOMAIN out : out[i] \in {"Starting capture", "Press 'c' to capture, 'q' to quit."}

C9_Witness ==
    /\ loopExit = "quit"
    /\ pc = "exited"
    /\ exitStatus = "exit0"
    /\ now - MaxStartTime > 0

\* C10: once the sensor is started it is stopped exactly once on every exit
\* path of capture_with_picamera2 (capture key, timeout, single capture, quit
\* key, an exception of a frame grab or of the preview window), and it is
\* stopped before rpicam-still is invoked after a Picamera2 failure.
C10_SensorStoppedOnce ==
    /\ stops <= 1
    /\ sensor = "stopped" <=> stops = 1
    /\ sensor = "started" => pc \in {"picam_t0", "grab", "show", "keys", "single", "finally"}
    /\ (pc = "rpicam_run" \/ rpicamCalls # << >>) => sensor \in {"off", "stopped"}
    /\ (loopExit # "none" /\ pc # "finally") => sensor = "stopped"
    /\ (AfterCapture /\ PICAMERA2_OK /\ ~primaryRaised) => sensor = "stopped"
    /\ sensor = "off" => (pc \in {"start", "picam_init"} \/ ~PICAMERA2_OK \/ primaryRaised)

C10_Witness ==
    /\ loopExit = "exception"
    /\ now > MaxStartTime
    /\ primaryRaised
    /\ sensor = "stopped"
    /\ Len(rpicamCalls) = 1

====
